---- MODULE Spec2Model ----
(***************************************************************************)
(* Model of the client-side task coordinator of the dashboard:            *)
(* AgentManager (pending queue, active map, status snapshot, dispatch,     *)
(* progress watchers) and the four simulated agents (BaseAgent and its     *)
(* subclasses).  All callbacks run to completion on one event loop; the    *)
(* suspension points are the timer waits (delay) and the microtask that    *)
(* resumes executeTask after an immediately resolved performTask.          *)
(* AppController (section navigation, the analysis-progress poller and its *)
(* render functions) and monitorAnalysisProgress run on the same event     *)
(* loop; a network call is in flight between the step that issues it and   *)
(* the step that resumes its caller.                                       *)
(***************************************************************************)
EXTENDS Integers, Sequences, FiniteSets, TLC

\* ---------------------------------------------------------------- bounds
\* Number of task ids the model hands out (three of them are the initial
\* tasks of initializeTaskQueue).
MaxTasks == 5

\* Polls in flight at once: loadAnalysisProgress calls and the status
\* checks of all monitorAnalysisProgress closures together (two, so that
\* the initial check of a monitor and one of its interval checks overlap).
MaxInFlight == 2

\* loadAnalysisData calls scheduled or in flight at once.
MaxDataLoads == 2

\* Delayed refreshAnalysis callbacks (setTimeout) waiting at once.
MaxTimeouts == 1

\* monitorAnalysisProgress calls (uploads answered with an analysis task
\* id).
MaxMonitors == 1

\* ------------------------------------------------------------- constants
Agents == {"data", "analysis", "visualization", "report"}

\* Task types handed to addTask after construction: the type uploadCSV
\* enqueues, a type with simulated work and a type the analysis agent
\* accepts without simulated work.  (initializeTaskQueue also enqueues
\* 'visualization' and 'report_generation'.)
TaskTypes == {"data_processing", "analysis", "statistical_analysis"}

\* Task types canHandleTask is probed with: every capability string and
\* one type no agent declares.
ProbeTypes == {"data_processing", "data_cleaning", "data_validation",
               "analysis", "statistical_analysis", "trend_analysis",
               "visualization", "chart_generation", "dashboard_update",
               "report_generation", "document_creation", "export",
               "translation"}

\* Values the status field of an agent is ever assigned in the source.
Statuses == {"offline", "online", "busy", "processing", "error"}

NoTask == 0
Undefined == "undefined"

\* capabilities passed to super(...) by each agent constructor.
capabilities(a) ==
    CASE a = "data" -> <<"data_processing", "data_cleaning", "data_validation">>
      [] a = "analysis" -> <<"analysis", "statistical_analysis", "trend_analysis">>
      [] a = "visualization" -> <<"visualization", "chart_generation", "dashboard_update">>
      [] a = "report" -> <<"report_generation", "document_creation", "export">>

InitialStatusAllOnline(a) == "online"

\* The status each constructor leaves the agent in.
InitialStatus(a) == IF a = "report" THEN "offline" ELSE "online"

\* The one task type for which performTask of the agent runs simulated work.
WorkType(a) ==
    CASE a = "data" -> "data_processing"
      [] a = "analysis" -> "analysis"
      [] a = "visualization" -> "visualization"
      [] a = "report" -> "report_generation"

\* Increment of the loop variable i in the simulated work of each agent.
StepSize(a) ==
    CASE a = "data" -> 20
      [] a = "analysis" -> 15
      [] a = "visualization" -> 20
      [] a = "report" -> 25

\* The three addTask calls of initializeTaskQueue, in order.
InitialTaskTypes == <<"data_processing", "visualization", "report_generation">>

\* The priority field of the tasks created in the source: the three tasks
\* of initializeTaskQueue, and by type the tasks of startAgentWorkflow (the
\* task of uploadCSV and of other callers carries none).
InitialPriorities == <<"high", "medium", "low">>
workflowPriority(ty) ==
    CASE ty = "data_processing" -> "high"
      [] ty = "analysis" -> "high"
      [] OTHER -> Undefined

\* ----------------------------------------------------------------- state
VARIABLES
    status,       \* agent.status of each agent
    progress,     \* agent.progress
    currentTask,  \* agent.currentTask (NoTask = null)
    pc,           \* where the agent's executeTask coroutine is suspended
    loopI,        \* loop variable i of the simulated work
    logged,       \* levels of the entries the agent's latest step pushed on this.logs
    agentStatus,  \* AgentManager.agentStatus: snapshot of the statuses
    taskQueue,    \* AgentManager.taskQueue: pending task ids, in order
    activeTasks,  \* AgentManager.activeTasks: task id -> agent id
    watchers,     \* running trackTaskProgress intervals <<taskId, agentId>>
    taskType,     \* task.type of each task object
    taskStatus,   \* task.status of each task object
    nextId,       \* next task id generateTaskId hands out
    ctor,         \* addTask calls of initializeTaskQueue already made
    ret,          \* last value returned to a direct caller of canHandleTask
    monitoringInterval, \* the setInterval of startAgentMonitoring
    app,          \* AppController: its fields, pending callbacks and calls
    display,      \* contents of the containers the render functions write
    monitors      \* monitorAnalysisProgress closures: timer and checks

vars == <<status, progress, currentTask, pc, loopI, logged, agentStatus, taskQueue,
          activeTasks, watchers, taskType, taskStatus, nextId, ctor, ret,
          monitoringInterval, app, display, monitors>>

agentVars == <<status, progress, currentTask, pc, loopI, logged>>
taskObjVars == <<taskStatus>>
managerVars == <<agentVars, agentStatus, taskQueue, activeTasks, watchers,
                 taskType, taskObjVars, nextId, ctor, ret, monitoringInterval>>
appVars == <<app, display, monitors>>

TaskIds == 1..MaxTasks

Range(s) == {s[i] : i \in DOMAIN s}

\* ------------------------------------------------------------- BaseAgent
\* Array.prototype.includes over the capability list.
RECURSIVE Includes(_, _)
Includes(s, x) ==
    IF s = <<>> THEN FALSE
    ELSE IF Head(s) = x THEN TRUE ELSE Includes(Tail(s), x)

canHandleTaskAnyStatus(a, ty) == Includes(capabilities(a), ty)

canHandleTaskAnyType(a, ty) == status[a] = "online"

canHandleTask(a, ty) ==
    Includes(capabilities(a), ty) /\ status[a] = "online"

\* getStatus()
getStatus(a) == status[a]

\* log(message, level = 'info') called once per element of levels by the
\* running step of agent a.
log(a, levels) == logged' = [logged EXCEPT ![a] = levels]

\* The synchronous part of executeTask(task): up to its first suspension.
\* For the data agent processData overwrites the status with 'processing'
\* before the first delay.  sync tells whether the call stack belongs to an
\* addTask (more synchronous caller code may follow) or to a timer callback.
executeTaskStart(a, t, ty, sync) ==
    /\ status' = [status EXCEPT ![a] =
                    IF a = "data" /\ ty = WorkType(a) THEN "processing" ELSE "busy"]
    /\ currentTask' = [currentTask EXCEPT ![a] = t]
    /\ progress' = [progress EXCEPT ![a] = 0]
    /\ loopI' = [loopI EXCEPT ![a] = 0]
    /\ pc' = [pc EXCEPT ![a] =
                IF ty = WorkType(a) THEN "loop"
                ELSE IF sync THEN "microSync" ELSE "microTimer"]
    /\ log(a, IF a = "data" /\ ty = WorkType(a)
              THEN <<"info", "info">> ELSE <<"info">>)

\* The tail of executeTask after performTask resolved (its 'Completed task'
\* entry is logged by the step that runs the tail).
executeTaskDoneStaysBusy(a) ==
    /\ UNCHANGED status
    /\ progress' = [progress EXCEPT ![a] = 100]
    /\ currentTask' = [currentTask EXCEPT ![a] = NoTask]
    /\ pc' = [pc EXCEPT ![a] = "idle"]
    /\ loopI' = [loopI EXCEPT ![a] = 0]

executeTaskDoneKeepProgress(a) ==
    /\ status' = [status EXCEPT ![a] = "online"]
    /\ UNCHANGED progress
    /\ currentTask' = [currentTask EXCEPT ![a] = NoTask]
    /\ pc' = [pc EXCEPT ![a] = "idle"]
    /\ loopI' = [loopI EXCEPT ![a] = 0]

executeTaskDone(a) ==
    /\ status' = [status EXCEPT ![a] = "online"]
    /\ progress' = [progress EXCEPT ![a] = 100]
    /\ currentTask' = [currentTask EXCEPT ![a] = NoTask]
    /\ pc' = [pc EXCEPT ![a] = "idle"]
    /\ loopI' = [loopI EXCEPT ![a] = 0]

\* The catch branch of executeTask after performTask rejected (its 'Failed
\* task' entry of level error is logged by the step that runs the branch).
executeTaskFailed(a) ==
    /\ status' = [status EXCEPT ![a] = "online"]
    /\ progress' = [progress EXCEPT ![a] = 0]
    /\ currentTask' = [currentTask EXCEPT ![a] = NoTask]
    /\ pc' = [pc EXCEPT ![a] = "idle"]
    /\ loopI' = [loopI EXCEPT ![a] = 0]

\* ---------------------------------------------------------- AgentManager
\* Map.set / Map.delete on activeTasks.
ActiveSet(m, t, a) == [x \in (DOMAIN m) \cup {t} |-> IF x = t THEN a ELSE m[x]]
ActiveDelete(m, t) == [x \in (DOMAIN m) \ {t} |-> m[x]]

\* generateTaskId(): a fresh id (time stamp plus random suffix).
generateTaskIdReuse == IF nextId > 1 THEN nextId - 1 ELSE nextId

generateTaskId == nextId

\* Array.prototype.shift: the queue that remains.
ShiftKeep(q) == q

Shift(q) == Tail(q)

\* The agent ids whose snapshot entry is 'online' (availableAgents).
availableAgents(snap) == {a \in Agents : snap[a] = "online"}

assignTaskAlwaysTrack(a, t, tt, sync) ==
    IF canHandleTask(a, tt[t])
    THEN /\ activeTasks' = ActiveSet(activeTasks, t, a)
         /\ executeTaskStart(a, t, tt[t], sync)
         /\ watchers' = watchers \cup {<<t, a>>}
    ELSE /\ UNCHANGED activeTasks
         /\ watchers' = watchers \cup {<<t, a>>}
         /\ UNCHANGED agentVars

\* assignTask(agentId, task); tt is the task-type map including the task.
assignTask(a, t, tt, sync) ==
    IF canHandleTask(a, tt[t])
    THEN /\ activeTasks' = ActiveSet(activeTasks, t, a)
         /\ executeTaskStart(a, t, tt[t], sync)
         /\ watchers' = watchers \cup {<<t, a>>}
    ELSE /\ UNCHANGED <<activeTasks, watchers>>
         /\ UNCHANGED agentVars

OnlineAgents == {a \in Agents : status[a] = "online"}

processTaskQueueLiveStatus(q, snap, tt, sync) ==
    IF Len(q) = 0 \/ OnlineAgents = {}
    THEN /\ taskQueue' = q
         /\ UNCHANGED <<activeTasks, watchers>>
         /\ UNCHANGED agentVars
    ELSE \E a \in OnlineAgents :
            /\ taskQueue' = Shift(q)
            /\ assignTask(a, Head(q), tt, sync)

processTaskQueueShiftFirst(q, snap, tt, sync) ==
    IF Len(q) = 0
    THEN /\ taskQueue' = q
         /\ UNCHANGED <<activeTasks, watchers>>
         /\ UNCHANGED agentVars
    ELSE IF availableAgents(snap) = {}
    THEN /\ taskQueue' = Shift(q)
         /\ UNCHANGED <<activeTasks, watchers>>
         /\ UNCHANGED agentVars
    ELSE \E a \in availableAgents(snap) :
            /\ taskQueue' = Shift(q)
            /\ assignTask(a, Head(q), tt, sync)

\* processTaskQueue() run on the queue q with the snapshot snap;
\* selectBestAgent picks any available agent (Math.random).
processTaskQueue(q, snap, tt, sync) ==
    IF Len(q) = 0 \/ availableAgents(snap) = {}
    THEN /\ taskQueue' = q
         /\ UNCHANGED <<activeTasks, watchers>>
         /\ UNCHANGED agentVars
    ELSE \E a \in availableAgents(snap) :
            /\ taskQueue' = Shift(q)
            /\ assignTask(a, Head(q), tt, sync)

NoMicrotask == \A a \in Agents : pc[a] \notin {"microSync", "microTimer"}
NoTimerMicrotask == \A a \in Agents : pc[a] # "microTimer"

addTaskNoDispatch(ty) ==
    LET id == generateTaskId
        tt == [taskType EXCEPT ![id] = ty]
    IN /\ nextId <= MaxTasks
       /\ taskType' = tt
       /\ nextId' = nextId + 1
       /\ taskQueue' = Append(taskQueue, id)
       /\ UNCHANGED <<activeTasks, watchers>>
       /\ UNCHANGED agentVars
       /\ UNCHANGED <<agentStatus, taskObjVars, ret>>

addTaskUnshift(ty) ==
    LET id == generateTaskId
        tt == [taskType EXCEPT ![id] = ty]
    IN /\ nextId <= MaxTasks
       /\ taskType' = tt
       /\ nextId' = nextId + 1
       /\ processTaskQueue(<<id>> \o taskQueue, agentStatus, tt, TRUE)
       /\ UNCHANGED <<agentStatus, taskObjVars, ret>>

\* addTask(task) with task.type = ty.
addTask(ty) ==
    LET id == generateTaskId
        tt == [taskType EXCEPT ![id] = ty]
    IN /\ nextId <= MaxTasks
       /\ taskType' = tt
       /\ nextId' = nextId + 1
       /\ processTaskQueue(Append(taskQueue, id), agentStatus, tt, TRUE)
       /\ UNCHANGED <<agentStatus, taskObjVars, ret>>

\* ---------------------------------------------------------- AppController
\* The sections showSection is called with: the analysis section and the
\* initial one, which stands for every other section (showSection treats
\* them alike).
Sections == {"dashboard", "analysis"}

\* The controller after its constructor: currentSection and
\* analysisProgressInterval are its fields; pollTimers counts the running
\* timers made by startAnalysisProgressPolling; refreshTimeouts counts the
\* setTimeout callbacks waiting to call refreshAnalysis, loadsInFlight the
\* loadAnalysisProgress calls awaiting their responses, dataLoads the
\* loadAnalysisData calls scheduled (setTimeout of showSection) or awaiting
\* their responses.
AppInit ==
    [currentSection |-> "dashboard", analysisProgressInterval |-> "null",
     pollTimers |-> 0,
     refreshTimeouts |-> 0, loadsInFlight |-> 0, dataLoads |-> 0]

\* No monitorAnalysisProgress call made yet for this slot.
MonitorInit == [progressCheckInterval |-> "unset", checksInFlight |-> 0]

\* The status checks in flight over the monitors ms[1..n].
RECURSIVE ChecksInFlight(_, _)
ChecksInFlight(ms, n) ==
    IF n = 0 THEN 0 ELSE ms[n].checksInFlight + ChecksInFlight(ms, n - 1)

AppBounded(c, ms) ==
    /\ c.loadsInFlight + ChecksInFlight(ms, MaxMonitors) <= MaxInFlight
    /\ c.dataLoads <= MaxDataLoads
    /\ c.refreshTimeouts <= MaxTimeouts

\* The synchronous part of loadAnalysisProgress(): the three fetches are
\* issued (the container exists in the page).
loadAnalysisProgress(c) == [c EXCEPT !.loadsInFlight = @ + 1]

\* The synchronous part of loadAnalysisData(): the first fetch is issued.
loadAnalysisData(c) == [c EXCEPT !.dataLoads = @ + 1]

startAnalysisProgressPollingUnguarded(c) ==
    [loadAnalysisProgress(c) EXCEPT !.analysisProgressInterval = "timer",
                                    !.pollTimers = @ + 1]

startAnalysisProgressPolling(c) ==
    IF c.analysisProgressInterval # "null" THEN c
    ELSE [loadAnalysisProgress(c) EXCEPT !.analysisProgressInterval = "timer",
                                         !.pollTimers = @ + 1]

stopAnalysisProgressPolling(c) ==
    IF c.analysisProgressInterval = "null" THEN c
    ELSE [c EXCEPT !.pollTimers = @ - 1,                  \* clearInterval
                   !.analysisProgressInterval = "null"]

\* cleanup(): the charts are destroyed (not kept as state) and the polling
\* is stopped.
cleanup(c) == stopAnalysisProgressPolling(c)

\* loadSectionData(sectionName); the loads of the other sections touch
\* nothing modelled here.
loadSectionData(c, s) == IF s = "analysis" THEN loadAnalysisData(c) ELSE c

\* showSection(sectionName), the section's element being in the page.  The
\* setTimeout(loadAnalysisData, 100) is counted as a scheduled data load.
showSection(c, s) ==
    LET shown == loadSectionData([c EXCEPT !.currentSection = s], s)
    IN IF s = "analysis"
       THEN loadAnalysisData(startAnalysisProgressPolling(shown))
       ELSE stopAnalysisProgressPolling(shown)

refreshAnalysis(c) == startAnalysisProgressPolling(loadAnalysisData(c))

\* showSection('analysis') followed by setTimeout(refreshAnalysis): the
\* tail of selectAgent('analysis') and of a completed analysis.
showAnalysisThenRefresh(c) ==
    [showSection(c, "analysis") EXCEPT !.refreshTimeouts = @ + 1]

\* ------------------------------------------------------ render functions
\* slice(-n), slice(0, n), reverse() and map() on arrays.
SliceLast(s, n) == IF Len(s) <= n THEN s ELSE SubSeq(s, Len(s) - n + 1, Len(s))
SliceFirst(s, n) == IF Len(s) <= n THEN s ELSE SubSeq(s, 1, n)
Reverse(s) == [i \in 1..Len(s) |-> s[Len(s) + 1 - i]]

\* toLowerCase() and toUpperCase() on the strings the server data holds.
ToLowerCase(s) ==
    CASE s = "Busy" -> "busy"
      [] s = "ERROR" -> "error"
      [] OTHER -> s

ToUpperCase(s) ==
    CASE s = "busy" -> "BUSY"
      [] s = "idle" -> "IDLE"
      [] s = "error" -> "ERROR"
      [] s = "info" -> "INFO"
      [] s = "warning" -> "WARNING"
      [] OTHER -> s

\* A value the server may leave out is the empty string (or the empty
\* sequence); a response that is null is the empty set, otherwise the set
\* of its one object.
Or(v, default) == IF v = "" THEN default ELSE v

\* The containers before any render.
DisplayInit ==
    [agentStatus |-> [kind |-> "unrendered", badge |-> "", task |-> "",
                      progress |-> 0],
     taskList |-> [kind |-> "unrendered", rows |-> <<>>],
     logs |-> [kind |-> "unrendered", rows |-> <<>>],
     graph |-> [badge |-> "", nodes |-> 0],
     taskQueue |-> <<>>]

\* The object loadAnalysisProgress's catch hands to
\* renderAnalysisAgentStatus.
ErrorData(msg) ==
    [error |-> msg, status |-> "", progress |-> 0, current_task |-> "",
     recent_logs |-> <<>>]

renderAnalysisAgentStatus(agentData) ==
    IF agentData = {}
    THEN [kind |-> "warning", badge |-> "UNKNOWN",
          task |-> "Unable to load analysis agent status.", progress |-> 0]
    ELSE LET d == CHOOSE x \in agentData : TRUE
             st == ToLowerCase(Or(d.status, "idle"))
         IN IF d.error # ""
            THEN [kind |-> "warning", badge |-> "UNKNOWN", task |-> d.error,
                  progress |-> 0]
            ELSE [kind |-> CASE st = "busy" -> "bg-info"
                             [] st = "idle" -> "bg-success"
                             [] st = "error" -> "bg-danger"
                             [] OTHER -> "bg-secondary",
                  badge |-> ToUpperCase(st),
                  task |-> Or(d.current_task, "N/A"),
                  progress |-> d.progress]

\* The types renderAnalysisTaskList keeps.
IsAnalysisTask(task) == task.type \in {"statistical_analysis", "chart_generation"}

TaskRows(tasks, label) == [i \in 1..Len(tasks) |-> <<label, tasks[i].type, tasks[i].id>>]

renderAnalysisTaskList(taskData) ==
    IF taskData = {}
    THEN [kind |-> "warning", rows |-> <<>>]
    ELSE LET d == CHOOSE x \in taskData : TRUE
             activeTasksShown == SelectSeq(d.active, IsAnalysisTask)
             queuedTasks == SelectSeq(d.queued, IsAnalysisTask)
             completedTasks ==
                 Reverse(SliceLast(SelectSeq(d.completed, IsAnalysisTask), 5))
             rows == TaskRows(activeTasksShown, "In Progress")
                     \o TaskRows(SliceFirst(queuedTasks, 5), "Queued")
                     \o TaskRows(completedTasks, "Done")
         IN IF rows = <<>>
            THEN [kind |-> "muted", rows |-> <<>>]
            ELSE [kind |-> "list", rows |-> rows]

levelClass(level) ==
    LET l == ToLowerCase(Or(level, "info"))
    IN CASE l = "error" -> "text-danger"
         [] l = "warning" -> "text-warning"
         [] l = "success" -> "text-success"
         [] OTHER -> "text-info"

LogRows(logs) ==
    [i \in 1..Len(logs) |->
        <<levelClass(logs[i].level), ToUpperCase(Or(logs[i].level, "info")),
          logs[i].message>>]

renderAnalysisLogs(logs) ==
    IF Len(logs) = 0
    THEN [kind |-> "muted", rows |-> <<>>]
    ELSE [kind |-> "list", rows |-> LogRows(Reverse(SliceLast(logs, 10)))]

\* renderAgentGraph(graphData), its three elements being in the page: the
\* badge and the node count of the message.
renderAgentGraph(graphData) ==
    IF graphData = {}
    THEN [badge |-> "Unavailable", nodes |-> 0]
    ELSE LET d == CHOOSE x \in graphData : TRUE
         IN IF ~d.available /\ ~d.mermaid
            THEN [badge |-> "Disabled", nodes |-> 0]
            ELSE IF ~d.available /\ d.mermaid
            THEN [badge |-> "Fallback", nodes |-> d.nodes]
            ELSE [badge |-> "Active", nodes |-> d.nodes]

QueueRows(tasks, label) == [i \in 1..Len(tasks) |-> <<tasks[i].type, label>>]

updateTaskQueueAppend(container, tasks) ==
    container
    \o QueueRows(tasks.active, "In Progress")
    \o QueueRows(tasks.queued, "Queued")
    \o QueueRows(SliceLast(tasks.completed, 5), "Completed")

\* updateTaskQueue(tasks) on the container's rows.
updateTaskQueue(container, tasks) ==
    LET cleared == <<>>   \* queueContainer.innerHTML = ''
    IN cleared
       \o QueueRows(tasks.active, "In Progress")
       \o QueueRows(tasks.queued, "Queued")
       \o QueueRows(SliceLast(tasks.completed, 5), "Completed")

\* What the awaited responses of one loadAnalysisProgress call turn out to
\* be: a rejection (or an unparsable body), or the three parsed bodies, null
\* for a response that is not ok (and for the graph fetch, which catches
\* its own rejection).
Rejected == [rejected |-> TRUE, agent |-> {}, tasks |-> {}, graph |-> {}]
Served(a, t, g) == [rejected |-> FALSE, agent |-> a, tasks |-> t, graph |-> g]

\* The rest of loadAnalysisProgress once the responses are in: the four
\* renders, or the two renders of the catch.
renderProgress(disp, o) ==
    IF o.rejected
    THEN [disp EXCEPT
            !.agentStatus = renderAnalysisAgentStatus({ErrorData("Failed to fetch")}),
            !.graph = renderAgentGraph({})]
    ELSE [disp EXCEPT
            !.agentStatus = renderAnalysisAgentStatus(o.agent),
            !.taskList = renderAnalysisTaskList(o.tasks),
            !.logs = renderAnalysisLogs(
                        IF o.agent = {} THEN <<>>
                        ELSE (CHOOSE x \in o.agent : TRUE).recent_logs),
            !.graph = renderAgentGraph(o.graph)]

\* ---------------------------------------------------------- server data
Task(i, ty) == [id |-> i, type |-> ty]
LogEntry(lv, i) == [level |-> lv, message |-> i]

AgentDataSet ==
    {{},
     {[error |-> "", status |-> "Busy", progress |-> 40,
       current_task |-> "statistical_analysis",
       recent_logs |-> <<LogEntry("info", 1), LogEntry("", 2)>>]},
     {[error |-> "", status |-> "", progress |-> 0, current_task |-> "",
       recent_logs |-> <<>>]},
     {[error |-> "", status |-> "error", progress |-> 100,
       current_task |-> "chart_generation",
       recent_logs |-> [i \in 1..11 |-> LogEntry("error", i)]]}}

TaskDataSet ==
    {{},
     {[active |-> <<>>, queued |-> <<>>, completed |-> <<>>]},
     {[active |-> <<Task(1, "statistical_analysis")>>,
       queued |-> <<Task(2, "chart_generation"), Task(3, "data_processing")>>,
       completed |-> <<>>]},
     {[active |-> <<>>, queued |-> <<>>,
       completed |-> [i \in 1..6 |-> Task(i, "statistical_analysis")]]}}

GraphDataSet ==
    {{},
     {[available |-> FALSE, mermaid |-> FALSE, nodes |-> 0]},
     {[available |-> TRUE, mermaid |-> TRUE, nodes |-> 4]}}

ServerOutcomes ==
    {Rejected} \cup
    {Served(a, t, g) : a \in AgentDataSet, t \in TaskDataSet, g \in GraphDataSet}

\* The two outcomes the polls of the whole page are given: a rejection and
\* one full answer.
PollOutcomes ==
    {Rejected,
     Served({[error |-> "", status |-> "Busy", progress |-> 40,
              current_task |-> "statistical_analysis",
              recent_logs |-> <<LogEntry("info", 1), LogEntry("", 2)>>]},
            {[active |-> <<Task(1, "statistical_analysis")>>,
              queued |-> <<Task(2, "chart_generation"), Task(3, "data_processing")>>,
              completed |-> <<>>]},
            {})}

\* ------------------------------------------------------------- the page
Init ==
    /\ status = [a \in Agents |-> InitialStatus(a)]
    /\ progress = [a \in Agents |-> 0]
    /\ currentTask = [a \in Agents |-> NoTask]
    /\ pc = [a \in Agents |-> "idle"]
    /\ loopI = [a \in Agents |-> 0]
    /\ logged = [a \in Agents |-> <<>>]
    /\ agentStatus = [a \in Agents |-> "offline"]
    /\ taskQueue = <<>>
    /\ activeTasks = [x \in {} |-> "data"]
    /\ watchers = {}
    /\ taskType = [t \in TaskIds |-> "none"]
    /\ taskStatus = [t \in TaskIds |-> Undefined]
    /\ nextId = 1
    /\ ctor = 0
    /\ ret = <<>>
    /\ monitoringInterval = "timer"
    /\ app = AppInit
    /\ display = DisplayInit
    /\ monitors = [m \in 1..MaxMonitors |-> MonitorInit]

\* One addTask call of initializeTaskQueue (inside the constructor).
InitializeTaskQueue ==
    /\ ctor < Len(InitialTaskTypes)
    /\ ctor' = ctor + 1
    /\ addTask(InitialTaskTypes[ctor + 1])
    /\ UNCHANGED <<monitoringInterval, appVars>>

Constructed == ctor = Len(InitialTaskTypes)

\* addTask called after construction (startAgentWorkflow, uploadCSV).
AddTask(ty) ==
    /\ Constructed
    /\ NoTimerMicrotask
    /\ addTask(ty)
    /\ UNCHANGED <<ctor, monitoringInterval, appVars>>

\* updateAgentStatuses(): the snapshot after the refresh.
updateAgentStatuses == [a \in Agents |-> getStatus(a)]

\* The monitoring interval of startAgentMonitoring (every 2 s).
MonitorTick ==
    /\ Constructed
    /\ monitoringInterval = "timer"
    /\ NoMicrotask
    /\ agentStatus' = updateAgentStatuses
    /\ processTaskQueue(taskQueue, updateAgentStatuses, taskType, FALSE)
    /\ UNCHANGED <<taskType, taskObjVars, nextId, ctor, ret,
                   monitoringInterval, appVars>>

\* refreshDashboard(): refreshes the snapshot without dispatching.
RefreshDashboard ==
    /\ Constructed
    /\ NoMicrotask
    /\ agentStatus' = updateAgentStatuses
    /\ UNCHANGED <<agentVars, taskQueue, activeTasks, watchers, taskType,
                   taskObjVars, nextId, ctor, ret,
                   monitoringInterval, appVars>>

\* The loop condition i <= 100 of the simulated work.
LoopGuardLate(i) == i <= 100 + 10

LoopGuard(i) == i <= 100

\* One resumption of the simulated work loop after its delay: the step is
\* logged and i advances; past 100 the loop ends, performTask resolves and
\* executeTask finishes in the same run of microtasks.
WorkStep(a) ==
    /\ pc[a] = "loop"
    /\ NoMicrotask
    /\ IF LoopGuard(loopI[a] + StepSize(a))
       THEN /\ loopI' = [loopI EXCEPT ![a] = loopI[a] + StepSize(a)]
            /\ progress' = [progress EXCEPT ![a] = loopI[a] + StepSize(a)]
            /\ log(a, <<"info">>)
            /\ UNCHANGED <<status, currentTask, pc>>
       ELSE /\ executeTaskDone(a)
            /\ log(a, IF a = "data" THEN <<"info", "info", "info">>
                      ELSE <<"info", "info">>)
    /\ UNCHANGED <<agentStatus, taskQueue, activeTasks, watchers, taskType,
                   taskObjVars, nextId, ctor, ret,
                   monitoringInterval, appVars>>

\* A step of the simulated work throws.  processData catches the error
\* itself (status 'error') and returns normally, so executeTask goes on to
\* its success tail; for the other agents the rejection reaches the catch
\* branch of executeTask.
WorkFails(a) ==
    /\ pc[a] = "loop"
    /\ NoMicrotask
    /\ IF a = "data"
       THEN executeTaskDone(a) /\ log(a, <<"info", "info">>)
       ELSE executeTaskFailed(a) /\ log(a, <<"error">>)
    /\ UNCHANGED <<agentStatus, taskQueue, activeTasks, watchers, taskType,
                   taskObjVars, nextId, ctor, ret,
                   monitoringInterval, appVars>>

\* The microtask resuming executeTask when performTask had nothing to do.
MicrotaskDone(a) ==
    /\ pc[a] \in {"microSync", "microTimer"}
    /\ executeTaskDone(a)
    /\ log(a, <<"info">>)
    /\ UNCHANGED <<agentStatus, taskQueue, activeTasks, watchers, taskType,
                   taskObjVars, nextId, ctor, ret,
                   monitoringInterval, appVars>>

\* Reading a property of a JavaScript value that is a string primitive:
\* the snapshot holds plain status strings, which have neither a 'status'
\* nor a 'progress' property, so the read yields undefined (the empty set;
\* a defined value v is {v}).
StringProp(s, name) == {}

\* The test that decides whether a watcher tick ends the task:
\* statusInfo.status === 'idle' || statusInfo.progress === 100,
\* statusInfo being the snapshot entry of the agent.
WatcherSeesDone(a) ==
    \/ "idle" \in StringProp(agentStatus[a], "status")
    \/ 100 \in StringProp(agentStatus[a], "progress")

\* One tick of the interval started by trackTaskProgress(taskId, agentId).
\* (The tick also stores statusInfo.progress || 0, that is 0, in
\* task.progress, a field nothing reads; the field is not kept as state.)
WatcherTick(t, a) ==
    /\ <<t, a>> \in watchers
    /\ Constructed
    /\ NoMicrotask
    /\ IF agentStatus[a] = "" \/ t \notin DOMAIN activeTasks
       THEN /\ watchers' = watchers \ {<<t, a>>}
            /\ UNCHANGED <<activeTasks, taskStatus>>
       ELSE IF WatcherSeesDone(a)
            THEN /\ watchers' = watchers \ {<<t, a>>}
                 /\ activeTasks' = ActiveDelete(activeTasks, t)
                 /\ taskStatus' = [taskStatus EXCEPT ![t] = "Completed"]
            ELSE UNCHANGED <<watchers, activeTasks, taskStatus>>
    /\ UNCHANGED <<agentVars, agentStatus, taskQueue, taskType, nextId, ctor, ret,
                   monitoringInterval, appVars>>

\* DataAgent.handleFileUpload when the upload response reports success.
HandleFileUpload ==
    /\ Constructed
    /\ NoMicrotask
    /\ status' = [status EXCEPT !["data"] = "processing"]
    /\ log("data", <<"info">>)
    /\ UNCHANGED <<progress, currentTask, pc, loopI, agentStatus, taskQueue,
                   activeTasks, watchers, taskType, taskObjVars, nextId, ctor, ret,
                   monitoringInterval, appVars>>

\* -------------------------------------------------- AppController steps
\* A navigation click or keyboard shortcut (the handlers are installed by
\* the DOMContentLoaded callbacks, which also run the constructors).
ShowSection(s) ==
    /\ Constructed
    /\ NoMicrotask
    /\ AppBounded(showSection(app, s), monitors)
    /\ app' = showSection(app, s)
    /\ UNCHANGED <<display, monitors, managerVars>>

\* The Refresh button of the analysis section.
RefreshAnalysis ==
    /\ Constructed
    /\ NoMicrotask
    /\ app.currentSection = "analysis"
    /\ AppBounded(refreshAnalysis(app), monitors)
    /\ app' = refreshAnalysis(app)
    /\ UNCHANGED <<display, monitors, managerVars>>

\* The agent cards clicked: the analysis agent's and one other (selectAgent
\* treats the others alike).
SelectedAgents == {"data", "analysis"}

\* selectAgent(agentId): a click on an agent card.
SelectAgent(a) ==
    /\ Constructed
    /\ NoMicrotask
    /\ IF a = "analysis"
       THEN /\ AppBounded(showAnalysisThenRefresh(app), monitors)
            /\ app' = showAnalysisThenRefresh(app)
       ELSE UNCHANGED app
    /\ UNCHANGED <<display, monitors, managerVars>>

\* A delayed callback (setTimeout 200 or 300 ms) calls refreshAnalysis.
RefreshTimeout ==
    /\ Constructed
    /\ NoMicrotask
    /\ app.refreshTimeouts > 0
    /\ LET c == refreshAnalysis([app EXCEPT !.refreshTimeouts = @ - 1])
       IN AppBounded(c, monitors) /\ app' = c
    /\ UNCHANGED <<display, monitors, managerVars>>

\* The beforeunload handler runs cleanup() (the page may stay if the
\* unload is cancelled).
Cleanup ==
    /\ Constructed
    /\ NoMicrotask
    /\ app' = cleanup(app)
    /\ UNCHANGED <<display, monitors, managerVars>>

\* A tick of the polling interval (every 5 s).
PollTick ==
    /\ Constructed
    /\ NoMicrotask
    /\ app.pollTimers > 0
    /\ AppBounded(loadAnalysisProgress(app), monitors)
    /\ app' = loadAnalysisProgress(app)
    /\ UNCHANGED <<display, monitors, managerVars>>

LoadAnalysisProgressDoneSyncQueue(o) ==
    /\ Constructed
    /\ NoMicrotask
    /\ app.loadsInFlight > 0
    /\ app' = [app EXCEPT !.loadsInFlight = @ - 1]
    /\ display' = renderProgress(display, o)
    /\ taskQueue' = IF o.rejected \/ o.tasks = {} THEN taskQueue ELSE <<>>
    /\ UNCHANGED <<monitors, agentVars, agentStatus, activeTasks, watchers,
                   taskType, taskObjVars, nextId, ctor, ret, monitoringInterval>>

\* The responses of one loadAnalysisProgress call are in.
LoadAnalysisProgressDone(o) ==
    /\ Constructed
    /\ NoMicrotask
    /\ app.loadsInFlight > 0
    /\ app' = [app EXCEPT !.loadsInFlight = @ - 1]
    /\ display' = renderProgress(display, o)
    /\ UNCHANGED <<monitors, managerVars>>

\* One loadAnalysisData call ends: it displays the analysis and calls
\* loadAnalysisProgress (ok), or shows the error (its catch).
LoadAnalysisDataDone(ok) ==
    /\ Constructed
    /\ NoMicrotask
    /\ app.dataLoads > 0
    /\ LET c == [app EXCEPT !.dataLoads = @ - 1]
       IN IF ok
          THEN /\ AppBounded(loadAnalysisProgress(c), monitors)
               /\ app' = loadAnalysisProgress(c)
          ELSE app' = c
    /\ UNCHANGED <<display, monitors, managerVars>>

\* loadTaskQueue() of loadInitialData and refreshAll: the response is in
\* (a rejection or an unparsable body is caught and changes nothing).
LoadTaskQueueDone(taskData) ==
    /\ Constructed
    /\ NoMicrotask
    /\ IF taskData = {}
       THEN UNCHANGED display
       ELSE display' = [display EXCEPT !.taskQueue =
                           updateTaskQueue(@, CHOOSE x \in taskData : TRUE)]
    /\ UNCHANGED <<app, monitors, managerVars>>

\* ------------------------------------------- uploadCSV and its monitor
\* monitorAnalysisProgress(taskId, filename): the interval is set and the
\* initial check is in flight.
monitorAnalysisProgress ==
    [progressCheckInterval |-> "set", checksInFlight |-> 1]

\* The reader.onload callback of uploadCSV after the POST was answered ok:
\* addTask, and a monitor when the answer has an analysis_task_id.
UploadCSV(withAnalysisId) ==
    /\ Constructed
    /\ NoTimerMicrotask
    /\ addTask("data_processing")
    /\ IF withAnalysisId
       THEN \E m \in 1..MaxMonitors :
               /\ monitors[m].progressCheckInterval = "unset"
               /\ \A k \in 1..(m - 1) : monitors[k].progressCheckInterval # "unset"
               /\ monitors' = [monitors EXCEPT ![m] = monitorAnalysisProgress]
               /\ AppBounded(app, monitors')
       ELSE UNCHANGED monitors
    /\ UNCHANGED <<ctor, monitoringInterval, app, display>>

\* A tick of progressCheckInterval (every 2 s): checkProgress is called.
CheckTick(m) ==
    /\ Constructed
    /\ NoMicrotask
    /\ monitors[m].progressCheckInterval = "set"
    /\ monitors' = [monitors EXCEPT ![m].checksInFlight = @ + 1]
    /\ AppBounded(app, monitors')
    /\ UNCHANGED <<app, display, managerVars>>

\* What one checkProgress call meets: its fetch rejects, or the task status
\* it reads (a response that is not ok changes as little as a rejection).
CheckOutcomes == {"reject", "in_progress", "completed", "failed"}

CheckDoneStopOnError(m, o) ==
    /\ Constructed
    /\ NoMicrotask
    /\ monitors[m].checksInFlight > 0
    /\ monitors' = [monitors EXCEPT
                      ![m].checksInFlight = @ - 1,
                      ![m].progressCheckInterval =
                          IF o \in {"completed", "failed", "reject"}
                          THEN "cleared" ELSE @]
    /\ IF o = "completed"
       THEN /\ AppBounded(showAnalysisThenRefresh(app), monitors')
            /\ app' = showAnalysisThenRefresh(app)
       ELSE UNCHANGED app
    /\ UNCHANGED <<display, managerVars>>

\* checkProgress resumes with outcome o.  (The fetch of the agent progress
\* that follows only logs; its rejection is caught by the same catch.)
CheckDone(m, o) ==
    /\ Constructed
    /\ NoMicrotask
    /\ monitors[m].checksInFlight > 0
    /\ monitors' = [monitors EXCEPT
                      ![m].checksInFlight = @ - 1,
                      ![m].progressCheckInterval =
                          IF o \in {"completed", "failed"} THEN "cleared" ELSE @]
    /\ IF o = "completed"
       THEN /\ AppBounded(showAnalysisThenRefresh(app), monitors')
            /\ app' = showAnalysisThenRefresh(app)
       ELSE UNCHANGED app
    /\ UNCHANGED <<display, managerVars>>

Next ==
    \/ InitializeTaskQueue
    \/ \E ty \in TaskTypes : AddTask(ty)
    \/ MonitorTick
    \/ RefreshDashboard
    \/ \E a \in Agents : WorkStep(a)
    \/ \E a \in Agents : WorkFails(a)
    \/ \E a \in Agents : MicrotaskDone(a)
    \/ \E t \in TaskIds, a \in Agents : WatcherTick(t, a)
    \/ HandleFileUpload

Spec == Init /\ [][Next]_vars

\* The coordinator when no step of the simulated work ever throws.
NextNoThrow ==
    \/ InitializeTaskQueue
    \/ \E ty \in TaskTypes : AddTask(ty)
    \/ MonitorTick
    \/ RefreshDashboard
    \/ \E a \in Agents : WorkStep(a)
    \/ \E a \in Agents : MicrotaskDone(a)
    \/ \E t \in TaskIds, a \in Agents : WatcherTick(t, a)
    \/ HandleFileUpload

SpecNoThrow == Init /\ [][NextNoThrow]_vars

\* The coordinator with the scheduling the event loop guarantees: the
\* timer of a pending delay() fires and a queued microtask runs, so a
\* step of simulated work or the resumption of executeTask that stays
\* possible is eventually taken.
Fairness ==
    \A a \in Agents : WF_vars(WorkStep(a)) /\ WF_vars(MicrotaskDone(a))

\* The constructor, the monitoring tick and the executions, with tasks
\* for the analysis agent added after construction (one type with
\* simulated work, one without; the data and visualization agents work
\* on the constructor's tasks).  No step of the work throws: a throwing
\* step ends the execution at once (WorkFails) and only shortens it.
NextFair ==
    \/ InitializeTaskQueue
    \/ \E ty \in {"analysis", "statistical_analysis"} : AddTask(ty)
    \/ MonitorTick
    \/ \E a \in Agents : WorkStep(a)
    \/ \E a \in Agents : MicrotaskDone(a)

SpecFair == Init /\ [][NextFair]_vars /\ Fairness

\* The page from the constructor up to the first tick of the monitoring
\* interval: every step but that tick.  (Without the tick only addTask
\* dispatches, one task per call and the initial tasks first, and each of
\* those has simulated work on the agent that accepts it: no execution
\* that resumes by a microtask starts within MaxTasks tasks.)
NextStartup ==
    \/ InitializeTaskQueue
    \/ \E ty \in TaskTypes : AddTask(ty)
    \/ RefreshDashboard
    \/ \E a \in Agents : WorkStep(a)
    \/ \E a \in Agents : WorkFails(a)
    \/ \E t \in TaskIds, a \in Agents : WatcherTick(t, a)
    \/ HandleFileUpload

SpecStartup == Init /\ [][NextStartup]_vars

\* The page with its section navigation, pollers and uploads; the
\* dispatcher runs its constructor and its monitoring tick.  (An upload
\* answered without an analysis_task_id is only the addTask of Next; the
\* uploads here are the ones that start a monitor.)
NextPoller ==
    \/ InitializeTaskQueue
    \/ MonitorTick
    \/ UploadCSV(TRUE)
    \/ \E s \in Sections : ShowSection(s)
    \/ RefreshAnalysis
    \/ \E a \in SelectedAgents : SelectAgent(a)
    \/ RefreshTimeout
    \/ PollTick
    \/ \E o \in PollOutcomes : LoadAnalysisProgressDone(o)
    \/ \E ok \in BOOLEAN : LoadAnalysisDataDone(ok)
    \/ \E m \in 1..MaxMonitors : CheckTick(m)
    \/ \E m \in 1..MaxMonitors, o \in CheckOutcomes : CheckDone(m, o)

SpecPoller == Init /\ [][NextPoller]_vars

\* The controller after the constructors, its polls and task-queue loads
\* answered with any of the server data.
NextRender ==
    \/ InitializeTaskQueue
    \/ \E s \in Sections : ShowSection(s)
    \/ PollTick
    \/ \E o \in ServerOutcomes : LoadAnalysisProgressDone(o)
    \/ \E ok \in BOOLEAN : LoadAnalysisDataDone(ok)
    \/ \E t \in TaskDataSet : LoadTaskQueueDone(t)

SpecRender == Init /\ [][NextRender]_vars

\* The controller alone: navigation, refreshes, cleanup and the polls.
NextTimers ==
    \/ InitializeTaskQueue
    \/ \E s \in Sections : ShowSection(s)
    \/ RefreshAnalysis
    \/ \E a \in SelectedAgents : SelectAgent(a)
    \/ RefreshTimeout
    \/ Cleanup
    \/ PollTick
    \/ \E o \in PollOutcomes : LoadAnalysisProgressDone(o)
    \/ \E ok \in BOOLEAN : LoadAnalysisDataDone(ok)

SpecTimers == Init /\ [][NextTimers]_vars

TypeOK ==
    /\ status \in [Agents -> Statuses]
    /\ progress \in [Agents -> 0..100]
    /\ currentTask \in [Agents -> {NoTask} \cup TaskIds]
    /\ pc \in [Agents -> {"idle", "loop", "microSync", "microTimer"}]
    /\ logged \in [Agents -> Seq({"info", "error"})]
    /\ agentStatus \in [Agents -> Statuses]
    /\ Range(taskQueue) \subseteq TaskIds
    /\ DOMAIN activeTasks \subseteq TaskIds
    /\ nextId \in 1..(MaxTasks + 1)
    /\ monitoringInterval \in {"null", "timer"}
    /\ app.currentSection \in Sections
    /\ app.analysisProgressInterval \in {"null", "timer"}
    /\ app.pollTimers \in 0..1
    /\ AppBounded(app, monitors)
    /\ \A m \in 1..MaxMonitors :
          /\ monitors[m].progressCheckInterval \in {"unset", "set", "cleared"}
          /\ monitors[m].checksInFlight \in 0..MaxInFlight

\* ------------------------------------------- canHandleTask on its own
\* A direct call of agent.canHandleTask(task) with task.type = ty: the
\* caller receives the result, nothing else happens.
CallCanHandleTask(a, ty) ==
    /\ ret' = <<a, ty, canHandleTask(a, ty)>>
    /\ UNCHANGED <<agentVars, agentStatus, taskQueue, activeTasks, watchers,
                   taskType, taskObjVars, nextId, ctor,
                   monitoringInterval, appVars>>

\* The agents in any combination of statuses, nothing queued.
InitCanHandle ==
    /\ status \in [Agents -> Statuses]
    /\ progress = [a \in Agents |-> 0]
    /\ currentTask = [a \in Agents |-> NoTask]
    /\ pc = [a \in Agents |-> "idle"]
    /\ loopI = [a \in Agents |-> 0]
    /\ logged = [a \in Agents |-> <<>>]
    /\ agentStatus = [a \in Agents |-> "offline"]
    /\ taskQueue = <<>>
    /\ activeTasks = [x \in {} |-> "data"]
    /\ watchers = {}
    /\ taskType = [t \in TaskIds |-> "none"]
    /\ taskStatus = [t \in TaskIds |-> Undefined]
    /\ nextId = 1
    /\ ctor = 0
    /\ ret = <<>>
    /\ monitoringInterval = "timer"
    /\ app = AppInit
    /\ display = DisplayInit
    /\ monitors = [m \in 1..MaxMonitors |-> MonitorInit]

NextCanHandle == \E a \in Agents, ty \in ProbeTypes : CallCanHandleTask(a, ty)

SpecCanHandle == InitCanHandle /\ [][NextCanHandle]_vars

\* ------------------------------------------------- vocabulary of claims
Created(t) == t < nextId
Pending(t) == t \in Range(taskQueue)
Active(t) == t \in DOMAIN activeTasks
Terminal(t) == taskStatus[t] \in {"Completed", "Failed"}
BoolToNat(b) == IF b THEN 1 ELSE 0

\* t is removed from the pending queue by the step (a task enqueued and
\* dispatched by the same addTask call counts as removed).
LeavesQueue(t) ==
    /\ Pending(t) \/ (nextId = t /\ nextId' = t + 1)
    /\ t \notin Range(taskQueue')

\* Every agent but a is online neither in fact nor in the snapshot.
OnlyAgent(a) ==
    \A b \in Agents \ {a} : status[b] # "online" /\ agentStatus[b] # "online"

\* a is the one agent whose status is online.
OnlyOnline(a) ==
    /\ status[a] = "online"
    /\ \A b \in Agents \ {a} : status[b] # "online"

\* The agent recorded for the active task t has finished executing it.
ExecutionFinished(t) ==
    /\ Active(t)
    /\ currentTask[activeTasks[t]] # t
    /\ status[activeTasks[t]] = "online"
    /\ progress[activeTasks[t]] = 100

\* ---------------------------------------------------------------- claims
\* C1: every task passed to addTask is in exactly one of the pending
\* queue, the active map, or a terminal state (completed or failed).
C1_ExactlyOnePlace ==
    \A t \in TaskIds :
        Created(t) =>
            BoolToNat(Pending(t)) + BoolToNat(Active(t)) + BoolToNat(Terminal(t)) = 1

\* C2: the active map holds at most one entry per agent id.
C2_OneActivePerAgent ==
    \A a \in Agents :
        Cardinality({t \in DOMAIN activeTasks : activeTasks[t] = a}) <= 1

\* C3: once the agent has finished an active task (progress 100, no longer
\* busy) and the manager's snapshot shows the agent's present status, the
\* next tick of the task's watcher ends the task: its test for removing the
\* task from the active map and marking it completed succeeds.
C3_WatcherCompletes ==
    \A t \in TaskIds, a \in Agents :
        (/\ <<t, a>> \in watchers
         /\ ExecutionFinished(t)
         /\ agentStatus[a] = status[a])
        => WatcherSeesDone(a)

\* C4: while the only online agent is one that supports the type, no task
\* of that type is skipped or lost: a task that leaves the pending queue
\* is started by that agent.
C4_SoleAgentServesAll ==
    [][\A a \in Agents, t \in TaskIds :
          (/\ Constructed
           /\ OnlyAgent(a)
           /\ status[a] \in {"online", "busy"}
           /\ LeavesQueue(t)
           /\ Includes(capabilities(a), taskType'[t]))
          => (t \in DOMAIN activeTasks' /\ activeTasks'[t] = a)]_vars

\* C5: an 'analysis' task that is dispatched while the only online agent
\* lacks 'analysis' stays unresolved: it remains pending or is marked
\* failed, and is not marked completed.
C5_UnhandledStaysUnresolved ==
    [][\A b \in Agents, t \in TaskIds :
          (/\ OnlyOnline(b)
           /\ ~Includes(capabilities(b), "analysis")
           /\ (Pending(t) \/ (nextId = t /\ nextId' = t + 1))
           /\ taskType'[t] = "analysis")
          => (/\ t \in Range(taskQueue') \/ taskStatus'[t] = "Failed"
              /\ taskStatus'[t] # "Completed")]_vars

\* C6: no task is both in the pending queue and a key of the active map.
C6_PendingActiveDisjoint ==
    \A t \in TaskIds : ~(Pending(t) /\ Active(t))

C6_Witness ==
    \E t \in TaskIds, u \in TaskIds : Active(t) /\ Pending(u)

\* C7: every entry of the active map pairs a task with an agent whose
\* capability list holds the task's type, and no agent executes a task
\* whose type it lacks.
C7_ActiveOnlyCapable ==
    /\ \A t \in DOMAIN activeTasks :
          taskType[t] \in Range(capabilities(activeTasks[t]))
    /\ \A a \in Agents :
          currentTask[a] # NoTask =>
              taskType[currentTask[a]] \in Range(capabilities(a))

\* A report task was handed to an agent (no agent that is ever online
\* declares report_generation) and left no trace, while another task is
\* active.
C7_Witness ==
    /\ \E t \in TaskIds :
          /\ Created(t) /\ taskType[t] = "report_generation"
          /\ ~Pending(t) /\ ~Active(t)
    /\ \E u \in TaskIds : Active(u)

\* C8: canHandleTask returns true exactly when the type is among the
\* agent's capabilities and the agent's status is online, and the call
\* changes nothing but the value handed to the caller.
C8_CanHandleIffCapableAndOnline ==
    [][ret' # ret =>
          /\ ret'[3] = (/\ ret'[2] \in Range(capabilities(ret'[1]))
                        /\ status[ret'[1]] = "online")
          /\ UNCHANGED <<agentVars, agentStatus, taskQueue, activeTasks,
                         watchers, taskType, taskObjVars, nextId, ctor>>]_vars

\* A call on an agent that declares the type but is not online returned
\* false.
C8_Witness ==
    /\ ret # <<>>
    /\ ret[2] \in Range(capabilities(ret[1]))
    /\ status[ret[1]] # "online"
    /\ ret[3] = FALSE

\* C9: tasks only move forward: a task enters the active map only from
\* the pending queue, a task that has left the pending queue never
\* re-enters it, and a completed or failed task is never again pending or
\* active and keeps its status.
C9_ForwardOnly ==
    [][\A t \in TaskIds :
          /\ (t \in DOMAIN activeTasks' /\ ~Active(t))
                => (Pending(t) \/ (nextId = t /\ nextId' = t + 1))
          /\ (Created(t) /\ ~Pending(t)) => t \notin Range(taskQueue')
          /\ Terminal(t) =>
                /\ taskStatus'[t] = taskStatus[t]
                /\ t \notin Range(taskQueue')
                /\ t \notin DOMAIN activeTasks']_vars

\* One task has gone from the queue into the active map and its execution
\* is over, another has left the queue without becoming active.
C9_Witness ==
    /\ \E t \in TaskIds : Active(t) /\ currentTask[activeTasks[t]] # t
    /\ \E u \in TaskIds : Created(u) /\ ~Pending(u) /\ ~Active(u)

\* C10: when an agent's execution of a task fails (the catch branch of
\* executeTask runs), the task is marked failed and not completed.
C10_FailedExecutionMarksFailed ==
    [][\A a \in Agents :
          (pc[a] = "loop" /\ pc'[a] = "idle" /\ progress'[a] = 0)
          => taskStatus'[currentTask[a]] = "Failed"]_vars

\* The number of entries of level lv among the levels ls.
RECURSIVE CountLevel(_, _)
CountLevel(ls, lv) ==
    IF ls = <<>> THEN 0
    ELSE BoolToNat(Head(ls) = lv) + CountLevel(Tail(ls), lv)

\* C11: when the simulated work fails during executeTask, for every agent
\* kind, the agent ends with status online and progress 0, exactly one
\* error-level log entry is appended, and the task is neither put back on
\* the queue nor executed again.
C11_FailedWorkResetsAgent ==
    [][\A a \in Agents :
          WorkFails(a)
          => /\ status'[a] = "online"
             /\ progress'[a] = 0
             /\ CountLevel(logged'[a], "error") = 1
             /\ currentTask[a] \notin Range(taskQueue')
             /\ currentTask'[a] = NoTask]_vars

\* C12: the status of every agent is always one of offline, online, busy
\* and error, whatever operation ran (task execution, file upload, status
\* refresh).
C12_StatusInFourValues ==
    \A a \in Agents : status[a] \in {"offline", "online", "busy", "error"}

\* C13: the progress of every agent is always an integer from 0 to 100,
\* whatever the agent kind and the step size of its work loop.
C13_ProgressInRange ==
    \A a \in Agents : progress[a] \in 0..100

\* The analysis agent (step 15, which does not divide 100) is in the last
\* iteration of its loop while the data agent has reached 100 in its own.
C13_Witness ==
    /\ pc["analysis"] = "loop" /\ progress["analysis"] = 90
    /\ pc["data"] = "loop" /\ progress["data"] = 100

\* The execution of agent a ends in this step and its work did not fail.
ExecutionSucceeds(a) ==
    /\ pc[a] # "idle" /\ pc'[a] = "idle"
    /\ ~WorkFails(a)

\* C18: when executeTask finishes without failure, the agent's status is
\* online, its progress is 100 and its currentTask is cleared, for every
\* agent kind and every accepted task type, also one without simulated
\* work.
C18_SuccessLeavesOnlineFull ==
    [][\A a \in Agents :
          ExecutionSucceeds(a)
          => /\ status'[a] = "online"
             /\ progress'[a] = 100
             /\ currentTask'[a] = NoTask]_vars

\* The analysis agent has finished a task whose type has no simulated work
\* (its last step logged only 'Completed task') and the visualization
\* agent has finished its work loop (last loop entry, then 'Completed
\* task').
C18_Witness ==
    /\ pc["analysis"] = "idle" /\ progress["analysis"] = 100
    /\ logged["analysis"] = <<"info">>
    /\ pc["visualization"] = "idle" /\ progress["visualization"] = 100
    /\ logged["visualization"] = <<"info", "info">>

\* The agents whose status is online at this moment.
OnlineNow == {a \in Agents : status[a] = "online"}

\* C19: in every dispatch attempt, the periodic one or the one addTask
\* triggers, the candidate agents are exactly the agents whose status is
\* online at that moment; a busy agent is never a candidate.
C19_CandidatesAreOnlineNow ==
    [][/\ nextId' # nextId => availableAgents(agentStatus) = OnlineNow
       /\ MonitorTick => availableAgents(agentStatus') = OnlineNow]_vars

\* C20: if the agent chosen for the dequeued task fails canHandleTask, the
\* task is dropped: afterwards it is neither pending nor active, no
\* execution and no watcher is started, and the status, progress and
\* currentTask of every agent are unchanged.
C20_DroppedTaskLeavesNoTrace ==
    [][\A t \in TaskIds :
          (LeavesQueue(t) /\ t \notin DOMAIN activeTasks')
          => /\ t \notin Range(taskQueue')
             /\ UNCHANGED <<status, progress, currentTask, pc>>
             /\ UNCHANGED <<activeTasks, watchers>>]_vars

\* A task of a type the data agent serves was dropped (nothing else
\* removes a task from both the queue and the active map) while another
\* task is active.
C20_Witness ==
    /\ \E t \in TaskIds :
          /\ Created(t) /\ taskType[t] = "data_processing"
          /\ ~Pending(t) /\ ~Active(t)
    /\ \E u \in TaskIds : Active(u) /\ taskType[u] = "data_processing"

\* C14: whenever the section shown is not 'analysis', the analysis-progress
\* polling timer is cleared (analysisProgressInterval is null), whatever
\* sequence of showSection, refreshAnalysis, selectAgent and delayed
\* refresh callbacks ran.
C14_PollingOnlyInAnalysis ==
    app.currentSection # "analysis" => app.analysisProgressInterval = "null"

\* C15: the progress poller is read-only with respect to the dispatcher: a
\* step that starts or ends a loadAnalysisProgress call or renders changes
\* neither the pending queue, the active map, a task's status nor an
\* agent's status or progress.
C15_PollerReadOnly ==
    [][(app'.loadsInFlight # app.loadsInFlight \/ display' # display)
       => UNCHANGED <<taskQueue, activeTasks, taskStatus, status, progress>>]_vars

\* A poll has rendered an answer while the dispatcher holds pending and
\* active tasks.
C15_Witness ==
    /\ display.taskList.kind = "list"
    /\ taskQueue # <<>>
    /\ DOMAIN activeTasks # {}

\* C16: a rejected network call in a poll (loadAnalysisProgress, the status
\* check of monitorAnalysisProgress) is caught: the poll's timer stays as it
\* was, so the next tick re-attempts, and the dispatcher's pending queue,
\* active map and dispatch timer are unchanged.
C16_FailedPollHaltsNothing ==
    [][/\ LoadAnalysisProgressDone(Rejected)
          => /\ app'.analysisProgressInterval = app.analysisProgressInterval
             /\ UNCHANGED <<taskQueue, activeTasks, monitoringInterval, monitors>>
       /\ \A m \in 1..MaxMonitors :
             CheckDone(m, "reject")
             => /\ monitors'[m].progressCheckInterval
                      = monitors[m].progressCheckInterval
                /\ app'.analysisProgressInterval = app.analysisProgressInterval
                /\ UNCHANGED <<taskQueue, activeTasks, monitoringInterval>>]_vars

\* A rejected poll has rendered its error while both poll timers and the
\* dispatch timer are set, no check or load is in flight and the
\* dispatcher holds pending and active tasks.
C16_Witness ==
    /\ display.agentStatus.task = "Failed to fetch"
    /\ app.analysisProgressInterval = "timer" /\ app.loadsInFlight = 0
    /\ \E m \in 1..MaxMonitors :
          /\ monitors[m].progressCheckInterval = "set"
          /\ monitors[m].checksInFlight = 0
    /\ monitoringInterval = "timer"
    /\ taskQueue # <<>> /\ DOMAIN activeTasks # {}

\* No row occurs twice in rows.
NoRowTwice(rows) ==
    \A i, j \in 1..Len(rows) : rows[i] = rows[j] => i = j

\* C17: applying the status-poll merge (the four renders of
\* loadAnalysisProgress, and updateTaskQueue) twice with identical server
\* data gives the displayed state of applying it once; no log entry and no
\* task row appears twice.
C17_MergeIdempotent ==
    /\ \A o \in ServerOutcomes :
          LET once == renderProgress(display, o)
          IN /\ renderProgress(once, o) = once
             /\ NoRowTwice(once.logs.rows)
             /\ NoRowTwice(once.taskList.rows)
    /\ \A t \in TaskDataSet \ {{}} :
          LET tasks == CHOOSE x \in t : TRUE
              once == updateTaskQueue(display.taskQueue, tasks)
          IN updateTaskQueue(once, tasks) = once

\* The containers hold the render of a full answer: ten log rows out of
\* eleven entries, a task list and a task queue with rows.
C17_Witness ==
    /\ display.logs.kind = "list" /\ Len(display.logs.rows) = 10
    /\ display.taskList.kind = "list"
    /\ Len(display.taskQueue) = 5


\* ------------------------------------------------- dispatch attempts
\* A step that runs processTaskQueue: the monitoring tick or an addTask.
DispatchAttempt == nextId' # nextId \/ MonitorTick

\* The pending queue processTaskQueue starts from in the step (addTask has
\* pushed its task by then).
QueueAtDispatch ==
    IF nextId' # nextId THEN Append(taskQueue, nextId) ELSE taskQueue

\* The priority of the created task t.
priority(t) ==
    IF t <= Len(InitialPriorities) THEN InitialPriorities[t]
    ELSE workflowPriority(taskType[t])

Rank(p) == CASE p = "high" -> 3 [] p = "medium" -> 2 [] p = "low" -> 1
             [] OTHER -> 0

\* C21: a dispatch attempt is a no-op when the pending queue is empty or no
\* agent is recorded as online (in the snapshot the attempt reads): the
\* queue keeps its content and order, so its head stays queued, and the
\* active map, the watchers and every agent's state are unchanged.
C21_IdleDispatchIsNoOp ==
    [][(/\ QueueAtDispatch = <<>> \/ availableAgents(agentStatus') = {}
        /\ DispatchAttempt)
       => /\ taskQueue' = QueueAtDispatch
          /\ UNCHANGED <<activeTasks, watchers>>
          /\ UNCHANGED agentVars]_vars

\* After a refresh of the snapshot recorded no agent online (one is
\* recorded busy), a dispatch attempt has left a task pending.
C21_Witness ==
    /\ Constructed
    /\ availableAgents(agentStatus) = {}
    /\ \E a \in Agents : agentStatus[a] = "busy"
    /\ \E t \in TaskIds : Pending(t) /\ t > Len(InitialTaskTypes)

C23_FifoWhateverPriority ==
    [][LET q == QueueAtDispatch
       IN /\ IF q = <<>> THEN taskQueue' = <<>>
             ELSE taskQueue' \in {q, Tail(q)}
          /\ \A j \in 2..Len(q) :
                q[j] \notin Range(taskQueue') => q[1] \notin Range(taskQueue')]_vars

\* A task has left the queue while a task of higher priority, enqueued
\* later, is still pending.
C23_Witness ==
    \E t \in TaskIds, u \in TaskIds :
        /\ t < u /\ Created(u)
        /\ Rank(priority(t)) < Rank(priority(u))
        /\ ~Pending(t) /\ Pending(u)


\* The tick of the watcher of task t on agent a that clears its interval.
WatcherStops(t, a) == WatcherTick(t, a) /\ <<t, a>> \notin watchers'

ExecutionStarts(a) ==
    currentTask'[a] # NoTask /\ currentTask'[a] # currentTask[a]

\* C25: executeTask is started only on an agent whose status is online at
\* that moment and that runs no execution; while an execution runs, the
\* agent's currentTask is not replaced and its progress is changed only by
\* that execution, even when the snapshot is stale.
C25_ExecuteOnlyOnOnlineAgent ==
    [][\A a \in Agents :
          /\ ExecutionStarts(a) =>
                /\ status[a] = "online"
                /\ pc[a] = "idle"
                /\ currentTask[a] = NoTask
          /\ pc[a] # "idle" =>
                /\ currentTask'[a] \in {currentTask[a], NoTask}
                /\ progress'[a] # progress[a] =>
                      WorkStep(a) \/ WorkFails(a) \/ MicrotaskDone(a)]_vars

\* An agent is executing while the snapshot still records it online, and a
\* later task of the type it works on was taken from the queue and refused.
C25_Witness ==
    \E a \in Agents, t \in TaskIds :
        /\ pc[a] = "loop" /\ status[a] # "online" /\ agentStatus[a] = "online"
        /\ Created(t) /\ t > currentTask[a] /\ taskType[t] = WorkType(a)
        /\ ~Pending(t) /\ ~Active(t)


\* The initial tasks created so far head the pending queue in insertion
\* order, the active map is empty and no agent is busy or holds a task.
InitialTasksWait ==
    /\ Len(taskQueue) >= ctor
    /\ \A i \in 1..ctor : taskQueue[i] = i
    /\ DOMAIN activeTasks = {}
    /\ \A a \in Agents : status[a] # "busy" /\ currentTask[a] = NoTask

\* The snapshot is as init() left it: no updateAgentStatuses call yet.
SnapshotNeverRefreshed == \A a \in Agents : agentStatus[a] = "offline"

\* C26 as stated: from the construction of the manager until the first
\* monitoring tick (in every state reached without that tick) the initial
\* tasks are all pending in insertion order, the active map is empty and
\* no agent is busy, although each addTask tried to dispatch.
C26_InitialTasksWaitForTick == InitialTasksWait

\* C26 amended: the same until the snapshot is first refreshed, by the
\* first monitoring tick or by a refreshDashboard call before it.
C26_InitialTasksWaitForSnapshot == SnapshotNeverRefreshed => InitialTasksWait

\* The constructor is over, a fourth task was added behind the three
\* initial ones, and the four dispatch attempts left them all pending.
C26_Witness ==
    /\ Constructed
    /\ SnapshotNeverRefreshed
    /\ taskQueue = <<1, 2, 3, 4>>


\* C27: the report agent never executes anything: its status is always
\* offline, it is never a dispatch candidate, it holds no task, no entry
\* of the active map names it, and no report_generation task is active.
C27_ReportAgentNeverExecutes ==
    /\ status["report"] = "offline"
    /\ "report" \notin availableAgents(agentStatus)
    /\ currentTask["report"] = NoTask /\ pc["report"] = "idle"
    /\ \A t \in DOMAIN activeTasks :
          activeTasks[t] # "report" /\ taskType[t] # "report_generation"

\* The snapshot was refreshed and the report task of initializeTaskQueue
\* has been taken from the queue, ending up nowhere.
C27_Witness ==
    /\ agentStatus["data"] # "offline"
    /\ \E t \in TaskIds :
          /\ Created(t) /\ taskType[t] = "report_generation"
          /\ ~Pending(t) /\ ~Active(t)


\* C28: under fair timer scheduling every agent that became busy through
\* executeTask eventually is online again with currentTask cleared; each
\* step of the simulated work that stays in the loop strictly increases
\* the agent's progress, which never exceeds 100.
C28_BusyAgentReturnsOnline ==
    /\ \A a \in Agents :
          (pc[a] # "idle") ~> (pc[a] = "idle" /\ status[a] = "online"
                               /\ currentTask[a] = NoTask)
    /\ [][\A a \in Agents :
             (WorkStep(a) /\ pc'[a] = "loop")
             => (progress[a] < progress'[a] /\ progress'[a] <= 100)]_vars

\* An agent has gone through its whole progress loop and is online again.
C28_Witness ==
    \E a \in Agents :
        /\ pc[a] = "idle" /\ status[a] = "online" /\ currentTask[a] = NoTask
        /\ progress[a] = 100
        /\ \E t \in TaskIds :
              Active(t) /\ activeTasks[t] = a /\ taskType[t] = WorkType(a)


\* C29: monitorAnalysisProgress announces the outcome at most once per
\* monitored task: a check result is processed as a completion (success
\* notification, showSection('analysis'), delayed refreshAnalysis) only
\* while the interval has not been cleared by an earlier terminal result,
\* also when the initial check and an interval check overlap.
C29_AnnouncesOnce ==
    [][\A m \in 1..MaxMonitors :
          CheckDone(m, "completed")
          => monitors[m].progressCheckInterval # "cleared"]_vars


\* C30: at most one analysis-progress polling timer runs at any time, and
\* it is the one the field analysisProgressInterval holds; a
\* startAnalysisProgressPolling call with the field set makes no timer,
\* and after cleanup, or a showSection away from the analysis section
\* (both call stopAnalysisProgressPolling), none runs.
C30_AtMostOnePollTimer ==
    /\ [](/\ app.pollTimers <= 1
          /\ (app.pollTimers = 1) <=> (app.analysisProgressInterval = "timer"))
    /\ [][/\ Cleanup => app'.pollTimers = 0
          /\ \A s \in Sections \ {"analysis"} :
                ShowSection(s) => app'.pollTimers = 0
          /\ app.analysisProgressInterval = "timer"
                => app'.pollTimers <= app.pollTimers]_vars

\* The polling was stopped by cleanup while the analysis section is shown,
\* after a poll of the timer had been answered.
C30_Witness ==
    /\ app.currentSection = "analysis"
    /\ app.pollTimers = 0
    /\ display.agentStatus.kind # "unrendered"

====
